---- MODULE Spec2Model ----
(***************************************************************************)
(* plat-ibkr (src/src/main.rs): one run of the reporting CLI.              *)
(*                                                                         *)
(* The run connects to the gateway, drains three subscriptions one after   *)
(* another into data.account_summary, data.positions and data.market_data, *)
(* and renders the report as text, JSON or CSV.  The gateway, the command  *)
(* line and the output streams are the environment: the gateway chooses    *)
(* whether connect and each open succeed and what every read-next yields   *)
(* (a message, or nothing), the command line chooses the format and the    *)
(* no_market_data flag, and a write to standard output may fail.           *)
(*                                                                         *)
(* f64 quantities are modelled by integers and the f64 product by the      *)
(* integer product.                                                        *)
(***************************************************************************)
EXTENDS Integers, Sequences, FiniteSets, TLC

\* The gateway delivers at most MaxMsgs informational (non-terminal)
\* messages over the whole run.
MaxMsgs == 3

VARIABLES
    pc,            \* position of main: which statement runs next
    cli,           \* the parsed command line: [format, symbol, no_market_data]
    data,          \* OutputData: [account_summary, positions, market_data]
    subs,          \* per category: state of its subscription and what was read
    stdout,        \* lines written to standard output
    stderr,        \* lines written to standard error
    rendered,      \* the renderers main has called, in call order
    exit_code      \* -1 while the process runs, then its exit status

vars == <<pc, cli, data, subs, stdout, stderr, rendered, exit_code>>

----------------------------------------------------------------------------
\* Command line

OutputFormat == {"Text", "Json", "Csv"}

Cli == [format : OutputFormat, symbol : {"AAPL"}, no_market_data : BOOLEAN]

Categories == {"account_summary", "positions", "market_data"}

----------------------------------------------------------------------------
\* Gateway messages

\* AccountSummaryResult: Summary(account, tag, value, currency) | End
SummaryMsgs ==
    { [type |-> "Summary", account |-> "DU123", tag |-> "NetLiquidation",
       value |-> "10000", currency |-> "USD"],
      [type |-> "Summary", account |-> "DU123", tag |-> "AccountType",
       value |-> "INDIVIDUAL", currency |-> ""] }

AccountSummaryEnd == [type |-> "End"]

AccountSummaryResult == SummaryMsgs \cup {AccountSummaryEnd}

\* PositionUpdate: Position(account, contract, position, average_cost) | PositionEnd
PositionMsgs ==
    { [type |-> "Position", account |-> "DU123", contract |-> [symbol |-> "MSFT"],
       position |-> 2, average_cost |-> 3],
      [type |-> "Position", account |-> "DU456", contract |-> [symbol |-> "IBM"],
       position |-> -1, average_cost |-> 5] }

PositionEnd == [type |-> "PositionEnd"]

PositionUpdate == PositionMsgs \cup {PositionEnd}

\* TickTypes: Price | Size | PriceSize | SnapshotEnd | every other variant.
\* tick_type fields hold the TickType enum, here by its numeric id.
TickMsgs ==
    { [type |-> "Price", tick_type |-> 1, price |-> 10],
      [type |-> "Size", tick_type |-> 0, size |-> 7],
      [type |-> "PriceSize", price_tick_type |-> 4, price |-> 11,
       size_tick_type |-> 5, size |-> 6],
      [type |-> "String", tick_type |-> 45, value |-> "1700000000"] }

SnapshotEnd == [type |-> "SnapshotEnd"]

TickTypes == TickMsgs \cup {SnapshotEnd}

\* format!("{:?}", tick_type): the Debug name of a TickType
DebugTickType(t) ==
    CASE t = 0 -> "BidSize"
      [] t = 1 -> "Bid"
      [] t = 4 -> "Last"
      [] t = 5 -> "LastSize"
      [] OTHER -> "Unknown"

----------------------------------------------------------------------------
\* Subscriptions

\* state: "unopened" | "open" | "failed" (the open returned Err)
\* log:   the messages read-next has returned, in arrival order
\* left:  TRUE once the drain loop over the subscription has been left
\* cancels: how many times cancel() was called on it
NewSubscription == [state |-> "unopened", log |-> <<>>, left |-> FALSE, cancels |-> 0]

\* informational messages read so far over all subscriptions
InfoRead ==
    LET Info(c) == Cardinality({i \in 1..Len(subs[c].log) :
                       subs[c].log[i].type \notin {"End", "PositionEnd", "SnapshotEnd"}})
    IN Info("account_summary") + Info("positions") + Info("market_data")

----------------------------------------------------------------------------
Init ==
    /\ pc = "connect"
    /\ cli \in Cli
    /\ data = [account_summary |-> <<>>, positions |-> <<>>, market_data |-> <<>>]
    /\ subs = [c \in Categories |-> NewSubscription]
    /\ stdout = <<>>
    /\ stderr = <<>>
    /\ rendered = <<>>
    /\ exit_code = -1

\* A line on a stream: what it is, the section it belongs to, and its cells.
Line(kind, sec, body) == [kind |-> kind, sec |-> sec, body |-> body]

\* Variant of Connecting: the narration is printed whatever the format
ConnectingAlways == <<Line("connecting", "main", <<>>)>>

\* main, lines 75-77: narration before the connect, text mode only
Connecting == IF cli.format = "Text" THEN <<Line("connecting", "main", <<>>)>> ELSE <<>>

\* main, lines 79-85: Client::connect returned Ok
ConnectOk ==
    /\ pc = "connect"
    /\ stderr' = stderr \o Connecting \o
                 (IF cli.format = "Text" THEN <<Line("connected", "main", <<>>)>> ELSE <<>>)
    /\ pc' = "account_summary_open"
    /\ UNCHANGED <<cli, data, subs, stdout, rendered, exit_code>>

\* Variant of ConnectFail: the guidance is printed but the run goes on
ConnectFailContinues ==
    /\ pc = "connect"
    /\ stderr' = stderr \o Connecting \o
                 << Line("connection_failed", "main", <<>>),
                    Line("guidance", "main", <<>>),
                    Line("guidance", "main", <<>>),
                    Line("guidance", "main", <<>>) >>
    /\ pc' = "account_summary_open"
    /\ UNCHANGED <<cli, data, subs, stdout, rendered, exit_code>>

\* main, lines 86-92: Client::connect returned Err
ConnectFail ==
    /\ pc = "connect"
    /\ stderr' = stderr \o Connecting \o
                 << Line("connection_failed", "main", <<>>),
                    Line("guidance", "main", <<>>),
                    Line("guidance", "main", <<>>),
                    Line("guidance", "main", <<>>) >>
    /\ exit_code' = 1
    /\ pc' = "exited"
    /\ UNCHANGED <<cli, data, subs, stdout, rendered>>

----------------------------------------------------------------------------
\* collect_account_summary

\* lines 134-139: the row pushed for a Summary message
AccountSummaryRow(summary) ==
    [account |-> summary.account, tag |-> summary.tag,
     value |-> summary.value, currency |-> summary.currency]

\* line 130: client.account_summary(..) returned Ok
OpenAccountSummaryOk ==
    /\ pc = "account_summary_open"
    /\ subs' = [subs EXCEPT !["account_summary"].state = "open"]
    /\ pc' = "account_summary_loop"
    /\ UNCHANGED <<cli, data, stdout, stderr, rendered, exit_code>>

\* line 130: client.account_summary(..) returned Err: the if-let body is skipped
OpenAccountSummaryErr ==
    /\ pc = "account_summary_open"
    /\ subs' = [subs EXCEPT !["account_summary"].state = "failed"]
    /\ pc' = "positions_open"
    /\ UNCHANGED <<cli, data, stdout, stderr, rendered, exit_code>>

\* lines 133-140: the Summary arm
OnSummary(summary) ==
    /\ InfoRead < MaxMsgs
    /\ subs' = [subs EXCEPT !["account_summary"].log = Append(@, summary)]
    /\ data' = [data EXCEPT !.account_summary = Append(@, AccountSummaryRow(summary))]
    /\ UNCHANGED pc

\* Variant of OnAccountSummaryEnd: the End arm breaks without cancel
OnAccountSummaryEndNoCancel ==
    /\ subs' = [subs EXCEPT !["account_summary"].log = Append(@, AccountSummaryEnd),
                            !["account_summary"].left = TRUE]
    /\ pc' = "positions_open"
    /\ UNCHANGED data

\* lines 141-144: the End arm: cancel, break
OnAccountSummaryEnd ==
    /\ subs' = [subs EXCEPT !["account_summary"].log = Append(@, AccountSummaryEnd),
                            !["account_summary"].cancels = @ + 1,
                            !["account_summary"].left = TRUE]
    /\ pc' = "positions_open"
    /\ UNCHANGED data

\* lines 131-146: one iteration of `for update in &subscription`
ReadAccountSummary ==
    /\ pc = "account_summary_loop"
    /\ \/ \E summary \in SummaryMsgs : OnSummary(summary)
       \/ OnAccountSummaryEnd
    /\ UNCHANGED <<cli, stdout, stderr, rendered, exit_code>>

\* line 131: the iterator yields nothing: the for loop ends
AccountSummaryExhausted ==
    /\ pc = "account_summary_loop"
    /\ subs' = [subs EXCEPT !["account_summary"].left = TRUE]
    /\ pc' = "positions_open"
    /\ UNCHANGED <<cli, data, stdout, stderr, rendered, exit_code>>

----------------------------------------------------------------------------
\* collect_positions

\* Variant of PositionRow: market_value forgets the quantity
PositionRowCostOnly(pos) ==
    [account |-> pos.account, symbol |-> pos.contract.symbol,
     position |-> pos.position, average_cost |-> pos.average_cost,
     market_value |-> pos.average_cost]

\* lines 155-161: the row pushed for a Position message
PositionRow(pos) ==
    [account |-> pos.account, symbol |-> pos.contract.symbol,
     position |-> pos.position, average_cost |-> pos.average_cost,
     market_value |-> pos.position * pos.average_cost]

\* line 151: client.positions() returned Ok
OpenPositionsOk ==
    /\ pc = "positions_open"
    /\ subs' = [subs EXCEPT !["positions"].state = "open"]
    /\ pc' = "positions_loop"
    /\ UNCHANGED <<cli, data, stdout, stderr, rendered, exit_code>>

\* Variant of OpenPositionsErr: the failed open ends the run
OpenPositionsErrAborts ==
    /\ pc = "positions_open"
    /\ subs' = [subs EXCEPT !["positions"].state = "failed"]
    /\ pc' = "exited"
    /\ exit_code' = 0
    /\ UNCHANGED <<cli, data, stdout, stderr, rendered>>

\* line 151: client.positions() returned Err
OpenPositionsErr ==
    /\ pc = "positions_open"
    /\ subs' = [subs EXCEPT !["positions"].state = "failed"]
    /\ pc' = "market_data"
    /\ UNCHANGED <<cli, data, stdout, stderr, rendered, exit_code>>

\* Variant of OnPosition: the Position arm cancels the subscription as well
OnPositionCancels(pos) ==
    /\ InfoRead < MaxMsgs
    /\ subs' = [subs EXCEPT !["positions"].log = Append(@, pos),
                            !["positions"].cancels = @ + 1]
    /\ data' = [data EXCEPT !.positions = Append(@, PositionRow(pos))]
    /\ UNCHANGED pc

\* lines 154-162: the Position arm
OnPosition(pos) ==
    /\ InfoRead < MaxMsgs
    /\ subs' = [subs EXCEPT !["positions"].log = Append(@, pos)]
    /\ data' = [data EXCEPT !.positions = Append(@, PositionRow(pos))]
    /\ UNCHANGED pc

\* lines 163-166: the PositionEnd arm: cancel, break
OnPositionEnd ==
    /\ subs' = [subs EXCEPT !["positions"].log = Append(@, PositionEnd),
                            !["positions"].cancels = @ + 1,
                            !["positions"].left = TRUE]
    /\ pc' = "market_data"
    /\ UNCHANGED data

\* lines 152-168: one iteration of `while let Some(update) = positions.next()`
ReadPositions ==
    /\ pc = "positions_loop"
    /\ \/ \E pos \in PositionMsgs : OnPosition(pos)
       \/ OnPositionEnd
    /\ UNCHANGED <<cli, stdout, stderr, rendered, exit_code>>

\* line 152: positions.next() returned None: the while-let loop ends
PositionsExhausted ==
    /\ pc = "positions_loop"
    /\ subs' = [subs EXCEPT !["positions"].left = TRUE]
    /\ pc' = "market_data"
    /\ UNCHANGED <<cli, data, stdout, stderr, rendered, exit_code>>

----------------------------------------------------------------------------
\* collect_market_data

\* lines 179-183: the row pushed for a Price tick
PriceRow(symbol, price) ==
    [symbol |-> symbol, tick_type |-> DebugTickType(price.tick_type), value |-> price.price]

\* lines 186-190: the row pushed for a Size tick
SizeRow(symbol, size) ==
    [symbol |-> symbol, tick_type |-> DebugTickType(size.tick_type), value |-> size.size]

\* Variant of PriceSizeRow: value taken from the size
PriceSizeRowSize(symbol, ps) ==
    [symbol |-> symbol, tick_type |-> DebugTickType(ps.price_tick_type), value |-> ps.size]

\* lines 193-197: the row pushed for a PriceSize tick
PriceSizeRow(symbol, ps) ==
    [symbol |-> symbol, tick_type |-> DebugTickType(ps.price_tick_type), value |-> ps.price]

\* Variant of OpenMarketDataOk: the flag is not consulted
OpenMarketDataOkAnyFlag ==
    /\ pc = "market_data"
    /\ subs' = [subs EXCEPT !["market_data"].state = "open"]
    /\ pc' = "market_data_loop"
    /\ UNCHANGED <<cli, data, stdout, stderr, rendered, exit_code>>

\* lines 108, 175: the flag is clear and the snapshot subscribe returned Ok
OpenMarketDataOk ==
    /\ pc = "market_data"
    /\ ~cli.no_market_data
    /\ subs' = [subs EXCEPT !["market_data"].state = "open"]
    /\ pc' = "market_data_loop"
    /\ UNCHANGED <<cli, data, stdout, stderr, rendered, exit_code>>

\* lines 108, 175: the flag is clear and the snapshot subscribe returned Err
OpenMarketDataErr ==
    /\ pc = "market_data"
    /\ ~cli.no_market_data
    /\ subs' = [subs EXCEPT !["market_data"].state = "failed"]
    /\ pc' = "render"
    /\ UNCHANGED <<cli, data, stdout, stderr, rendered, exit_code>>

\* line 108: no_market_data is set: collect_market_data is not called
SkipMarketData ==
    /\ pc = "market_data"
    /\ cli.no_market_data
    /\ pc' = "render"
    /\ UNCHANGED <<cli, data, subs, stdout, stderr, rendered, exit_code>>

\* Variant of OnTick: a new row replaces the collection instead of joining it
OnTickLatestOnly(tick) ==
    /\ InfoRead < MaxMsgs
    /\ subs' = [subs EXCEPT !["market_data"].log = Append(@, tick)]
    /\ data' = [data EXCEPT !.market_data =
                  CASE tick.type = "Price" -> <<PriceRow(cli.symbol, tick)>>
                    [] tick.type = "Size" -> <<SizeRow(cli.symbol, tick)>>
                    [] tick.type = "PriceSize" -> <<PriceSizeRow(cli.symbol, tick)>>
                    [] OTHER -> @]
    /\ UNCHANGED pc

\* lines 178-198 and 200: the arms of a tick that is not SnapshotEnd
OnTick(tick) ==
    /\ InfoRead < MaxMsgs
    /\ subs' = [subs EXCEPT !["market_data"].log = Append(@, tick)]
    /\ data' = [data EXCEPT !.market_data =
                  CASE tick.type = "Price" -> Append(@, PriceRow(cli.symbol, tick))
                    [] tick.type = "Size" -> Append(@, SizeRow(cli.symbol, tick))
                    [] tick.type = "PriceSize" -> Append(@, PriceSizeRow(cli.symbol, tick))
                    [] OTHER -> @]
    /\ UNCHANGED pc

\* Variant of OnSnapshotEnd: SnapshotEnd falls into the `_ => {}` arm and
\* the loop goes on reading
OnSnapshotEndIgnored ==
    /\ UNCHANGED <<subs, pc, data>>

\* line 199: the SnapshotEnd arm: break
OnSnapshotEnd ==
    /\ subs' = [subs EXCEPT !["market_data"].log = Append(@, SnapshotEnd),
                            !["market_data"].left = TRUE]
    /\ pc' = "render"
    /\ UNCHANGED data

\* lines 176-202: one iteration of `for tick in &subscription`
ReadMarketData ==
    /\ pc = "market_data_loop"
    /\ \/ \E tick \in TickMsgs : OnTick(tick)
       \/ OnSnapshotEnd
    /\ UNCHANGED <<cli, stdout, stderr, rendered, exit_code>>

\* line 176: the iterator yields nothing: the for loop ends
MarketDataExhausted ==
    /\ pc = "market_data_loop"
    /\ subs' = [subs EXCEPT !["market_data"].left = TRUE]
    /\ pc' = "render"
    /\ UNCHANGED <<cli, data, stdout, stderr, rendered, exit_code>>

----------------------------------------------------------------------------
\* Rendering.  A renderer is a sequence of writes, each of one line to one
\* stream; the lines are computed from the report as the code computes them.

Out(kind, sec, body) == [stream |-> "stdout", line |-> Line(kind, sec, body)]

Err(kind, sec, body) == [stream |-> "stderr", line |-> Line(kind, sec, body)]

\* lines 207-209, 222-224, 237-239: a section banner
Banner(sec) == << Out("rule", sec, <<>>), Out("title", sec, <<>>), Out("rule", sec, <<>>) >>

\* lines 206-249
print_text(d, symbol) ==
    LET summary_line(row) ==
            IF row.currency = ""
            THEN Out("row", "account_summary", <<row.account, row.tag, row.value>>)
            ELSE Out("row", "account_summary",
                     <<row.account, row.tag, row.value, row.currency>>)
        position_line(row) ==
            Out("row", "positions",
                <<row.position, row.symbol, row.average_cost, row.market_value>>)
        tick_line(row) == Out("row", "market_data", <<row.tick_type, row.value>>)
    IN  Banner("account_summary")
        \o [i \in 1..Len(d.account_summary) |-> summary_line(d.account_summary[i])]
        \o << Out("blank", "account_summary", <<>>) >>
        \o Banner("positions")
        \o (IF d.positions = <<>>
            THEN << Out("placeholder", "positions", <<>>) >>
            ELSE [i \in 1..Len(d.positions) |-> position_line(d.positions[i])])
        \o << Out("blank", "positions", <<>>) >>
        \o Banner("market_data")
        \o (IF d.market_data = <<>>
            THEN << Out("placeholder", "market_data", <<>>) >>
            ELSE [i \in 1..Len(d.market_data) |-> tick_line(d.market_data[i])])
        \o << Out("blank", "market_data", <<>>), Out("done", "main", <<>>) >>

\* serde's view of the structs of lines 36-65: the fields in declaration
\* order, each under its Rust name
SerializeAccountSummaryRow(row) ==
    << <<"account", row.account>>, <<"tag", row.tag>>,
       <<"value", row.value>>, <<"currency", row.currency>> >>

SerializePositionRow(row) ==
    << <<"account", row.account>>, <<"symbol", row.symbol>>,
       <<"position", row.position>>, <<"average_cost", row.average_cost>>,
       <<"market_value", row.market_value>> >>

SerializeMarketDataRow(row) ==
    << <<"symbol", row.symbol>>, <<"tick_type", row.tick_type>>, <<"value", row.value>> >>

\* Variant of SerializeOutputData: an empty collection is left out of the object
SerializeOutputDataSkipEmpty(d) ==
    (IF d.account_summary = <<>> THEN <<>>
     ELSE << <<"account_summary",
               [i \in 1..Len(d.account_summary) |->
                   SerializeAccountSummaryRow(d.account_summary[i])]>> >>)
    \o (IF d.positions = <<>> THEN <<>>
        ELSE << <<"positions",
                  [i \in 1..Len(d.positions) |-> SerializePositionRow(d.positions[i])]>> >>)
    \o (IF d.market_data = <<>> THEN <<>>
        ELSE << <<"market_data",
                  [i \in 1..Len(d.market_data) |->
                      SerializeMarketDataRow(d.market_data[i])]>> >>)

SerializeOutputData(d) ==
    << <<"account_summary",
         [i \in 1..Len(d.account_summary) |-> SerializeAccountSummaryRow(d.account_summary[i])]>>,
       <<"positions",
         [i \in 1..Len(d.positions) |-> SerializePositionRow(d.positions[i])]>>,
       <<"market_data",
         [i \in 1..Len(d.market_data) |-> SerializeMarketDataRow(d.market_data[i])]>> >>

\* lines 251-253: one println! of the pretty-printed object
print_json(d) == << Out("json", "report", SerializeOutputData(d)) >>

Keys(fields) == [i \in 1..Len(fields) |-> fields[i][1]]

Values(fields) == [i \in 1..Len(fields) |-> fields[i][2]]

\* csv::Writer over stdout, lines 259-263: serialize() writes the header
\* record before the first row, flush() hands the table to stdout.
\* records: the rows as serde presents them.
CsvTable(sec, records) ==
    << Out("header", sec, Keys(records[1])) >>
    \o [i \in 1..Len(records) |-> Out("row", sec, Values(records[i]))]

\* Variant of CsvSection: the trailing println!() is outside the emptiness test
CsvSectionBlankWhenEmpty(sec, records, sep) ==
    IF records # <<>>
    THEN << Err("label", sec, <<>>) >> \o CsvTable(sec, records) \o sep
    ELSE sep

\* lines 257-265, 268-276, 279-286: the block of one collection: nothing
\* at all when it is empty, else its label on stderr, its table, and the
\* block's trailing println!() (sep; the market-data block has none)
CsvSection(sec, records, sep) ==
    IF records # <<>>
    THEN << Err("label", sec, <<>>) >> \o CsvTable(sec, records) \o sep
    ELSE <<>>

\* lines 255-287
print_csv(d) ==
    CsvSection("account_summary",
               [i \in 1..Len(d.account_summary) |->
                   SerializeAccountSummaryRow(d.account_summary[i])],
               << Out("blank", "account_summary", <<>>) >>)
    \o CsvSection("positions",
                  [i \in 1..Len(d.positions) |-> SerializePositionRow(d.positions[i])],
                  << Out("blank", "positions", <<>>) >>)
    \o CsvSection("market_data",
                  [i \in 1..Len(d.market_data) |->
                      SerializeMarketDataRow(d.market_data[i])],
                  <<>>)

\* the lines of one stream among the writes
OnStream(writes, stream) ==
    LET F[i \in 0..Len(writes)] ==
            IF i = 0 THEN <<>>
            ELSE IF writes[i].stream = stream THEN Append(F[i-1], writes[i].line)
            ELSE F[i-1]
    IN F[Len(writes)]

\* Variant of Render: a failed write is ignored and main returns normally
RenderIgnoresErrors(name, writes) ==
    /\ pc = "render"
    /\ rendered' = Append(rendered, name)
    /\ \E n \in 0..Len(writes) :
          /\ n < Len(writes) => writes[n + 1].stream = "stdout"
          /\ stdout' = stdout \o OnStream(SubSeq(writes, 1, n), "stdout")
          /\ stderr' = stderr \o OnStream(SubSeq(writes, 1, n), "stderr")
          /\ exit_code' = 0
    /\ pc' = "exited"
    /\ UNCHANGED <<cli, data, subs>>

\* main, lines 113-117: the selected renderer runs.  Either every write
\* succeeds and main returns (exit status 0), or a write to standard output
\* fails: println! and unwrap() panic, nothing further is written and the
\* process ends with the panic status 101.
Render(name, writes) ==
    /\ pc = "render"
    /\ rendered' = Append(rendered, name)
    /\ \E n \in 0..Len(writes) :
          /\ n < Len(writes) => writes[n + 1].stream = "stdout"
          /\ stdout' = stdout \o OnStream(SubSeq(writes, 1, n), "stdout")
          /\ stderr' = stderr \o OnStream(SubSeq(writes, 1, n), "stderr")
          /\ exit_code' = IF n = Len(writes) THEN 0 ELSE 101
    /\ pc' = "exited"
    /\ UNCHANGED <<cli, data, subs>>

PrintText == cli.format = "Text" /\ Render("print_text", print_text(data, cli.symbol))

PrintJson == cli.format = "Json" /\ Render("print_json", print_json(data))

\* Variant of PrintCsv: the CSV renderer runs whatever the format
PrintCsvAnyFormat == Render("print_csv", print_csv(data))

PrintCsv == cli.format = "Csv" /\ Render("print_csv", print_csv(data))

Next ==
    \/ ConnectOk
    \/ ConnectFail
    \/ OpenAccountSummaryOk
    \/ OpenAccountSummaryErr
    \/ ReadAccountSummary
    \/ AccountSummaryExhausted
    \/ OpenPositionsOk
    \/ OpenPositionsErr
    \/ ReadPositions
    \/ PositionsExhausted
    \/ OpenMarketDataOk
    \/ OpenMarketDataErr
    \/ SkipMarketData
    \/ ReadMarketData
    \/ MarketDataExhausted
    \/ PrintText
    \/ PrintJson
    \/ PrintCsv

Spec == Init /\ [][Next]_vars

\* The run against a gateway that keeps delivering: every read-next of an
\* open subscription yields a message, and after finitely many of them the
\* sentinel (no iterator ends without one).  The run is one sequential
\* thread: whenever its next statement can execute, it does.
NextDelivering ==
    \/ ConnectOk
    \/ ConnectFail
    \/ OpenAccountSummaryOk
    \/ OpenAccountSummaryErr
    \/ ReadAccountSummary
    \/ OpenPositionsOk
    \/ OpenPositionsErr
    \/ ReadPositions
    \/ OpenMarketDataOk
    \/ OpenMarketDataErr
    \/ SkipMarketData
    \/ ReadMarketData
    \/ PrintText
    \/ PrintJson
    \/ PrintCsv

SpecDelivering == Init /\ [][NextDelivering]_vars /\ WF_vars(NextDelivering)
----------------------------------------------------------------------------
\* Properties

Log(c) == subs[c].log

\* the last message read from c is its terminal sentinel
SentinelRead(c) ==
    /\ Log(c) # <<>>
    /\ Log(c)[Len(Log(c))].type \in {"End", "PositionEnd", "SnapshotEnd"}

\* the open of c was attempted
Attempted(c) == subs[c].state # "unopened"

\* the writes of the renderer the command line selects, on the report as it is
SelectedWrites ==
    CASE cli.format = "Text" -> print_text(data, cli.symbol)
      [] cli.format = "Json" -> print_json(data)
      [] cli.format = "Csv" -> print_csv(data)

SelectedRenderer ==
    CASE cli.format = "Text" -> "print_text"
      [] cli.format = "Json" -> "print_json"
      [] cli.format = "Csv" -> "print_csv"

\* the run has ended with every write of the renderer `format` done
Completed(format) == pc = "exited" /\ exit_code = 0 /\ cli.format = format

Count(seq, Test(_)) == Cardinality({i \in 1..Len(seq) : Test(seq[i])})

IsBlank(line) == line.kind = "blank"

\* tables on a CSV stream: the maximal runs of lines that are not blank
Tables(out) ==
    Cardinality({i \in 1..Len(out) :
                    ~IsBlank(out[i]) /\ (i = 1 \/ IsBlank(out[i-1]))})

NonEmpty == {c \in Categories : data[c] # <<>>}

\* C1: once End has been read from the account-summary subscription, the
\* account-summary collection holds exactly one row per Summary message read,
\* in arrival order and with the message's fields, and cancel has been called
\* on the subscription exactly once; cancel is never called before End has
\* been read, and never twice.
C1_AccountSummaryDrain ==
    LET sub == subs["account_summary"]
        log == sub.log
        rows == data.account_summary
    IN  /\ sub.cancels <= 1
        /\ sub.cancels = 1 => SentinelRead("account_summary")
        /\ SentinelRead("account_summary") =>
              /\ sub.cancels = 1
              /\ Len(rows) = Len(log) - 1
              /\ \A i \in 1..(Len(log) - 1) :
                    /\ log[i].type = "Summary"
                    /\ rows[i].account = log[i].account
                    /\ rows[i].tag = log[i].tag
                    /\ rows[i].value = log[i].value
                    /\ rows[i].currency = log[i].currency

\* two different Summary messages, then End, have been drained
C1_Witness ==
    /\ SentinelRead("account_summary")
    /\ Len(data.account_summary) = 2
    /\ data.account_summary[1].tag = "NetLiquidation"
    /\ data.account_summary[2].tag = "AccountType"
    /\ subs["account_summary"].cancels = 1

\* C2: once SnapshotEnd has been read and the market-data loop has been
\* left, cancel has been called on the market-data subscription.
C2_SnapshotEndCancels ==
    (SentinelRead("market_data") /\ subs["market_data"].left)
        => subs["market_data"].cancels >= 1

\* C3: a category whose open returned an error keeps an empty collection,
\* has nothing read from it and is never cancelled; the run goes on: by the
\* time of rendering every other category has been opened (market data
\* unless skipped by flag) and every opened one drained, the selected
\* renderer is called, and the run ends with exit status 0, the only other
\* status being the panic of a failed write to standard output.
C3_FailureIsolation ==
    \A c \in Categories :
        subs[c].state = "failed" =>
            /\ data[c] = <<>>
            /\ subs[c].log = <<>>
            /\ subs[c].cancels = 0
            /\ pc \in {"render", "exited"} =>
                  \A d \in Categories \ {c} :
                      /\ Attempted(d) \/ (d = "market_data" /\ cli.no_market_data)
                      /\ subs[d].state = "open" => subs[d].left
            /\ pc = "exited" =>
                  /\ rendered = <<SelectedRenderer>>
                  /\ exit_code \in {0, 101}
                  /\ exit_code = 0 <=> stdout = OnStream(SelectedWrites, "stdout")

\* positions failed to open, the other two were drained into rows, and the
\* run ended with the complete report and status 0
C3_Witness ==
    /\ subs["positions"].state = "failed"
    /\ SentinelRead("account_summary") /\ data.account_summary # <<>>
    /\ SentinelRead("market_data") /\ data.market_data # <<>>
    /\ pc = "exited" /\ exit_code = 0
    /\ stdout = OnStream(SelectedWrites, "stdout")
    /\ stdout # <<>>

\* C4: subscriptions are opened in the order account summary, positions,
\* market data, and at most one subscription is open and not yet cancelled.
C4_StrictSequencing ==
    /\ Attempted("positions") => Attempted("account_summary")
    /\ Attempted("market_data") => Attempted("positions")
    /\ Cardinality({c \in Categories :
                       subs[c].state = "open" /\ subs[c].cancels = 0}) <= 1

\* C5: with no_market_data set, the market-data open is never attempted,
\* nothing is read from it and its collection is empty in every state, while
\* by the time of rendering account summary and positions have been opened
\* and, where the open succeeded, drained.
C5_SkipFlag ==
    cli.no_market_data =>
        /\ subs["market_data"] = NewSubscription
        /\ data.market_data = <<>>
        /\ (pc = "render" \/ (pc = "exited" /\ exit_code # 1)) =>
              \A c \in {"account_summary", "positions"} :
                  /\ Attempted(c)
                  /\ subs[c].state = "open" => subs[c].left

\* a skipped run that collected both other categories and rendered them
C5_Witness ==
    /\ cli.no_market_data
    /\ pc = "exited" /\ exit_code = 0
    /\ data.account_summary # <<>>
    /\ data.positions # <<>>
    /\ stdout # <<>>

\* C6: in every state the positions collection holds exactly one row per
\* Position message read, in arrival order, with the message's account,
\* position and averageCost, and with marketValue = position * averageCost.
C6_PositionRows ==
    LET log == Log("positions")
        msgs == SelectSeq(log, LAMBDA m : m.type = "Position")
        rows == data.positions
    IN  /\ Len(rows) = Len(msgs)
        /\ \A i \in 1..Len(msgs) : log[i] = msgs[i]
        /\ \A i \in 1..Len(rows) :
              /\ rows[i].account = msgs[i].account
              /\ rows[i].position = msgs[i].position
              /\ rows[i].average_cost = msgs[i].average_cost
              /\ rows[i].market_value = rows[i].position * rows[i].average_cost

\* a long and a short position drained before PositionEnd
C6_Witness ==
    /\ SentinelRead("positions")
    /\ Len(data.positions) = 2
    /\ data.positions[1].position = 2 /\ data.positions[1].market_value = 6
    /\ data.positions[2].position = -1 /\ data.positions[2].market_value = -5

\* the rows the ticks of a log stand for: symbol and value
TickValues(log) ==
    LET F[i \in 0..Len(log)] ==
            IF i = 0 THEN <<>>
            ELSE IF log[i].type \in {"Price", "PriceSize"}
                 THEN Append(F[i-1], <<cli.symbol, log[i].price>>)
            ELSE IF log[i].type = "Size"
                 THEN Append(F[i-1], <<cli.symbol, log[i].size>>)
            ELSE F[i-1]
    IN F[Len(log)]

\* C7: in every state the market-data collection is the arrival-ordered
\* subsequence of the Price, Size and PriceSize ticks read, with value = price
\* for Price and PriceSize and value = size for Size; a tick of any other
\* variant adds no row, ends neither the loop nor the process, and nothing
\* is read after SnapshotEnd.
C7_MarketDataMapping ==
    LET log == Log("market_data")
        rows == data.market_data
    IN  /\ [i \in 1..Len(rows) |-> <<rows[i].symbol, rows[i].value>>] = TickValues(log)
        /\ \A i \in 1..(Len(log) - 1) : log[i].type # "SnapshotEnd"
        /\ (log # <<>> /\ ~SentinelRead("market_data") /\ ~subs["market_data"].left)
              => (pc = "market_data_loop" /\ exit_code = -1)

\* an ignored tick, then a PriceSize and a Size tick, then SnapshotEnd
C7_Witness ==
    /\ SentinelRead("market_data")
    /\ Len(Log("market_data")) = 4
    /\ Log("market_data")[1].type = "String"
    /\ Log("market_data")[2].type = "PriceSize"
    /\ Log("market_data")[3].type = "Size"
    /\ Len(data.market_data) = 2
    /\ data.market_data[1].value = 11
    /\ data.market_data[2].value = 7

\* C8: a completed text rendering has the sections account summary,
\* positions, market data in that order, and the section of every empty
\* collection contains a placeholder line.
C8_TextPlaceholders ==
    Completed("Text") =>
        LET titles == SelectSeq(stdout, LAMBDA l : l.kind = "title")
        IN  /\ [i \in 1..Len(titles) |-> titles[i].sec]
                  = <<"account_summary", "positions", "market_data">>
            /\ \A c \in Categories :
                  data[c] = <<>> =>
                      \E i \in 1..Len(stdout) :
                          stdout[i].kind = "placeholder" /\ stdout[i].sec = c

\* C9: a completed CSV rendering has as many tables on standard output as
\* there are non-empty collections, each with one header record and one
\* record per row; an empty collection has no line on standard output and no
\* label on standard error; with empty positions and non-empty account
\* summary and market data there are exactly two tables with a single blank
\* line between them.
C9_CsvSkipsEmpty ==
    Completed("Csv") =>
        /\ Tables(stdout) = Cardinality(NonEmpty)
        /\ Count(stdout, LAMBDA l : l.kind = "header") = Cardinality(NonEmpty)
        /\ Count(stdout, LAMBDA l : l.kind = "row")
              = Len(data.account_summary) + Len(data.positions) + Len(data.market_data)
        /\ \A c \in Categories \ NonEmpty :
              /\ Count(stdout, LAMBDA l : l.sec = c) = 0
              /\ Count(stderr, LAMBDA l : l.sec = c) = 0
        /\ NonEmpty = {"account_summary", "market_data"} =>
              /\ Tables(stdout) = 2
              /\ Count(stdout, IsBlank) = 1
              /\ ~IsBlank(stdout[1]) /\ ~IsBlank(stdout[Len(stdout)])

\* CSV of a report with empty positions and the other two non-empty
C9_Witness ==
    /\ Completed("Csv")
    /\ NonEmpty = {"account_summary", "market_data"}
    /\ Tables(stdout) = 2

\* C10: in a completed CSV rendering blank lines occur only between two
\* consecutive tables, one per adjacent pair: standard output neither begins
\* nor ends with a blank line and has no two blank lines in a row.
C10_CsvSeparators ==
    Completed("Csv") =>
        /\ stdout # <<>> => (~IsBlank(stdout[1]) /\ ~IsBlank(stdout[Len(stdout)]))
        /\ \A i \in 1..(Len(stdout) - 1) : ~(IsBlank(stdout[i]) /\ IsBlank(stdout[i+1]))
        /\ Count(stdout, IsBlank) = (IF NonEmpty = {} THEN 0 ELSE Cardinality(NonEmpty) - 1)

\* Decoding a JSON object, given as its members in written order
KeySet(fields) == {fields[i][1] : i \in 1..Len(fields)}

Member(fields, key) ==
    LET i == CHOOSE j \in 1..Len(fields) : fields[j][1] = key
    IN fields[i][2]

\* the object has exactly the members keys, each once
HasExactly(fields, keys) ==
    /\ Len(fields) = Len(keys)
    /\ KeySet(fields) = {keys[i] : i \in 1..Len(keys)}

\* Standard output is one JSON object whose members are the three collections
\* under the names top = <<account summary, positions, market data>>, whose
\* rows carry exactly the members summaryKeys, positionKeys and tickKeys
\* (in the order of the row structs' fields), and which decodes to the rows
\* of the report in the same order.
JsonDecodesTo(top, summaryKeys, positionKeys, tickKeys) ==
    /\ Len(stdout) = 1
    /\ stdout[1].kind = "json"
    /\ LET doc == stdout[1].body
       IN  /\ HasExactly(doc, top)
           /\ LET summaries == Member(doc, top[1])
                  positions == Member(doc, top[2])
                  ticks == Member(doc, top[3])
              IN  /\ Len(summaries) = Len(data.account_summary)
                  /\ Len(positions) = Len(data.positions)
                  /\ Len(ticks) = Len(data.market_data)
                  /\ \A i \in 1..Len(summaries) :
                        /\ HasExactly(summaries[i], summaryKeys)
                        /\ [account |-> Member(summaries[i], summaryKeys[1]),
                            tag |-> Member(summaries[i], summaryKeys[2]),
                            value |-> Member(summaries[i], summaryKeys[3]),
                            currency |-> Member(summaries[i], summaryKeys[4])]
                              = data.account_summary[i]
                  /\ \A i \in 1..Len(positions) :
                        /\ HasExactly(positions[i], positionKeys)
                        /\ [account |-> Member(positions[i], positionKeys[1]),
                            symbol |-> Member(positions[i], positionKeys[2]),
                            position |-> Member(positions[i], positionKeys[3]),
                            average_cost |-> Member(positions[i], positionKeys[4]),
                            market_value |-> Member(positions[i], positionKeys[5])]
                              = data.positions[i]
                  /\ \A i \in 1..Len(ticks) :
                        /\ HasExactly(ticks[i], tickKeys)
                        /\ [symbol |-> Member(ticks[i], tickKeys[1]),
                            tick_type |-> Member(ticks[i], tickKeys[2]),
                            value |-> Member(ticks[i], tickKeys[3])]
                              = data.market_data[i]

ConnectFailed == \E i \in 1..Len(stderr) : stderr[i].kind = "connection_failed"

\* C12: once the connect has failed the process has exited with status 1,
\* the guidance is the last thing on standard error, no subscription was
\* ever opened, no renderer was called and standard output is empty; and
\* the exit status is 1 only if the connect failed.
C12_ConnectionFailure ==
    /\ ConnectFailed =>
          /\ pc = "exited"
          /\ exit_code = 1
          /\ stderr[Len(stderr)].kind = "guidance"
          /\ \A c \in Categories : subs[c] = NewSubscription
          /\ rendered = <<>>
          /\ stdout = <<>>
    /\ exit_code = 1 => ConnectFailed

\* a CSV run whose connect failed
C12_Witness ==
    /\ ConnectFailed
    /\ exit_code = 1
    /\ cli.format = "Csv"

\* seq is an initial part of full
IsPrefix(seq, full) ==
    /\ Len(seq) <= Len(full)
    /\ seq = SubSeq(full, 1, Len(seq))

\* C13: once a renderer has been called and the process has exited, standard
\* output holds an initial part of the rendered report; if a part is missing
\* (a write failed), nothing after the failed write was written and the exit
\* status is neither 0 nor "still running".
C13_WriteFailureFatal ==
    (pc = "exited" /\ rendered # <<>>) =>
        LET full == OnStream(SelectedWrites, "stdout")
        IN  /\ IsPrefix(stdout, full)
            /\ stdout # full => (exit_code # 0 /\ exit_code # -1)

\* a text rendering whose write failed after the first section
C13_Witness ==
    /\ pc = "exited"
    /\ rendered = <<"print_text">>
    /\ exit_code = 101
    /\ stdout # <<>>
    /\ stdout[Len(stdout)].sec = "positions"

\* C14: against a gateway that delivers a finite number of messages and then
\* the sentinel on every subscription it opens, a run whose connect succeeded
\* eventually has left every drain loop it entered, has called the selected
\* renderer and has exited.
C14_Termination ==
    (pc = "account_summary_open") ~>
        (/\ pc = "exited"
         /\ rendered = <<SelectedRenderer>>
         /\ \A c \in Categories : subs[c].state = "open" => subs[c].left)

\* a completed run that drained all three subscriptions to their sentinels
C14_Witness ==
    /\ pc = "exited" /\ exit_code = 0
    /\ \A c \in Categories : SentinelRead(c) /\ Len(Log(c)) = 2

\* C15: a drain loop that has been left has read its subscription's
\* terminal sentinel, and its subscription has been cancelled.
C15_BlockingUntilSentinel ==
    \A c \in Categories :
        subs[c].left => (SentinelRead(c) /\ subs[c].cancels >= 1)

\* where main stands while the drain loop of c runs
LoopPc(c) ==
    CASE c = "account_summary" -> "account_summary_loop"
      [] c = "positions" -> "positions_loop"
      [] c = "market_data" -> "market_data_loop"

\* C16: every collection starts empty; a step that changes a collection adds
\* exactly one row at its end, is a step of that collection's own drain loop
\* on its open subscription before the sentinel was read, and changes no
\* other collection; once the sentinel has been read nothing more is read
\* from the subscription (so no later message becomes a row), and a
\* collection whose open failed never changes.
C16_CollectionLifecycle ==
    /\ \A c \in Categories : data[c] = <<>>
    /\ [][\A c \in Categories :
            /\ data'[c] # data[c] =>
                  /\ Len(data'[c]) = Len(data[c]) + 1
                  /\ SubSeq(data'[c], 1, Len(data[c])) = data[c]
                  /\ pc = LoopPc(c)
                  /\ subs[c].state = "open"
                  /\ ~SentinelRead(c) /\ ~subs[c].left
                  /\ \A d \in Categories \ {c} : data'[d] = data[d]
            /\ SentinelRead(c) => subs'[c].log = subs[c].log
         ]_vars

\* three ticks became three rows, one after the other, before SnapshotEnd
C16_Witness ==
    /\ SentinelRead("market_data")
    /\ Len(data.market_data) = 3
    /\ pc = "exited"

\* the drain loop of c has returned, or c was skipped by flag
DrainedOrSkipped(c) ==
    \/ subs[c].state = "failed"
    \/ subs[c].state = "open" /\ subs[c].left
    \/ c = "market_data" /\ cli.no_market_data /\ subs[c].state = "unopened"

\* C17: at most one renderer is ever called, it is the one the format
\* selects, and when it is called every drain loop has returned or been
\* skipped; a run that connected and has exited has called it; nothing is on
\* standard output before it is called; and once it has been called the
\* report, the subscriptions (opened, read, cancelled) and the list of
\* renderers called never change again.
C17_RenderOrdering ==
    /\ [](/\ Len(rendered) <= 1
          /\ rendered # <<>> =>
                /\ rendered = <<SelectedRenderer>>
                /\ \A c \in Categories : DrainedOrSkipped(c)
          /\ (pc = "exited" /\ exit_code # 1) => rendered # <<>>
          /\ rendered = <<>> => stdout = <<>>)
    /\ [][rendered # <<>> =>
            (data' = data /\ subs' = subs /\ rendered' = rendered)]_vars

\* a JSON run that skipped market data and rendered after the other two loops
C17_Witness ==
    /\ rendered = <<"print_json">>
    /\ cli.no_market_data
    /\ subs["account_summary"].left /\ subs["positions"].left
    /\ stdout # <<>>

\* C18: in every state, cancel has been called at most once on each
\* subscription, and only on one that was opened successfully and whose last
\* message read is its terminal sentinel, the only sentinel read from it: it
\* was not cancelled before the sentinel and nothing was read after.
C18_CancelDiscipline ==
    \A c \in Categories :
        /\ subs[c].cancels <= 1
        /\ subs[c].cancels >= 1 =>
              /\ subs[c].state = "open"
              /\ SentinelRead(c)
              /\ \A i \in 1..(Len(Log(c)) - 1) :
                    Log(c)[i].type \notin {"End", "PositionEnd", "SnapshotEnd"}

\* account summary and positions were each cancelled after a row and the sentinel
C18_Witness ==
    /\ subs["account_summary"].cancels = 1 /\ Len(Log("account_summary")) = 2
    /\ subs["positions"].cancels = 1 /\ Len(Log("positions")) = 2

\* the kinds of line each renderer writes to standard output
ReportKinds ==
    CASE cli.format = "Text" -> {"rule", "title", "row", "placeholder", "blank", "done"}
      [] cli.format = "Json" -> {"json"}
      [] cli.format = "Csv" -> {"header", "row", "blank"}

\* C19: in every state, connection narration ("connecting", "connected") is
\* on standard error only in text mode; a CSV section label is on standard
\* error only in CSV mode and only for a non-empty collection; standard
\* output holds no narration, failure message, guidance or label, only the
\* lines of the selected format's report, and nothing before the renderer
\* is called.
C19_OutputChannels ==
    /\ \A i \in 1..Len(stderr) :
          /\ stderr[i].kind \in {"connecting", "connected"} => cli.format = "Text"
          /\ stderr[i].kind = "label" =>
                (cli.format = "Csv" /\ data[stderr[i].sec] # <<>>)
          /\ stderr[i].kind \in
                {"connecting", "connected", "connection_failed", "guidance", "label"}
    /\ \A i \in 1..Len(stdout) : stdout[i].kind \in ReportKinds
    /\ stdout # <<>> => (rendered = <<SelectedRenderer>>
                          /\ IsPrefix(stdout, OnStream(SelectedWrites, "stdout")))

\* a completed CSV run: two labels and nothing else on standard error
C19_Witness ==
    /\ Completed("Csv")
    /\ Len(stderr) = 2
    /\ stderr[1].kind = "label" /\ stderr[2].kind = "label"
    /\ stdout # <<>>

====
